---- MODULE Spec2Model ----
(***************************************************************************)
(* A model of the CLIP loss engine of losses/clip_loss.py (class CLIPLoss  *)
(* and its helper DirectionLoss).                                          *)
(*                                                                         *)
(* Tensors are modelled exactly, on a lattice on which the engine's        *)
(* arithmetic stays exact: the frozen CLIP encoders return axis-aligned    *)
(* integer vectors of a two-dimensional embedding space, a unit vector is  *)
(* written as the primitive integer vector of its ray, and L2              *)
(* normalisation divides by the gcd of the components (0/0 is NaN).  An    *)
(* image batch is a number of rows that share one content, so a mean over  *)
(* the batch axis is the row value and only the batch size decides whether *)
(* two tensors broadcast.                                                  *)
(***************************************************************************)
EXTENDS Integers, Sequences, FiniteSets, TLC

VARIABLES
    lambda_direction,       \* CLIPLoss.__init__, the loss weights
    lambda_patch,
    lambda_global,
    lambda_manifold,
    lambda_texture,
    lambda_contrast,
    direction_loss_type,    \* DirectionLoss.loss_type of self.direction_loss
    neg_aug,                \* self.neg_aug
    target_direction,       \* the four cache fields
    patch_text_directions,
    src_text_features,
    target_text_features,
    op,                     \* the method invoked last ("none" after construction)
    args,                   \* its arguments
    ret,                    \* what it returned, or the exception it raised
    image_calls,            \* encode_image calls the last method made
    text_calls,             \* encode_text calls the last method made
    patch_centers,          \* the centers the last method drew or was given
    patches                 \* the crops of each generate_patches call it made

weights == <<lambda_direction, lambda_patch, lambda_global, lambda_manifold,
             lambda_texture, lambda_contrast>>
config  == <<direction_loss_type, neg_aug>>
caches  == <<target_direction, patch_text_directions, src_text_features,
             target_text_features>>
vars    == <<weights, config, caches, op, args, ret, image_calls, text_calls,
             patch_centers, patches>>

----------------------------------------------------------------------------
(* Bounds of the model.                                                    *)

MaxLambda  == 2     \* loss weights range over 0..MaxLambda
MaxBatch   == 2     \* batch sizes range over 1..MaxBatch

----------------------------------------------------------------------------
(* Vectors of the embedding space.                                         *)

Abs(x) == IF x < 0 THEN -x ELSE x

RECURSIVE GCD(_, _)
GCD(a, b) == IF b = 0 THEN a ELSE GCD(b, a % b)

\* None, the initial value of every cache field.
None == [none |-> TRUE]

\* The NaN row that x / x.norm() yields for a zero row.
NaN == [nan |-> TRUE, v |-> <<0, 0>>]

\* v / v.norm(dim=-1, keepdim=True): the unit vector of v's ray.
Normalize(v) ==
    LET g == GCD(Abs(v[1]), Abs(v[2]))
    IN  IF g = 0 THEN NaN
        ELSE [nan |-> FALSE, v |-> <<v[1] \div g, v[2] \div g>>]

\* The outputs of the frozen encoders: axis-aligned, not all of unit length.
AxisEmbeddings == {<<1, 0>>, <<0, 1>>, <<-1, 0>>, <<0, -1>>, <<2, 0>>}

----------------------------------------------------------------------------
(* Tensors: a batch of n equal rows, or the error raised in computing it.  *)

ShapeError == [status |-> "error", val |-> "shape_mismatch"]

Tensor(n, row) == [status |-> "ok", n |-> n, row |-> row]

\* torch's broadcasting of the batch axis: equal sizes, or one of them 1.
Broadcastable(n1, n2) == n1 = n2 \/ n1 = 1 \/ n2 = 1

BroadcastSize(n1, n2) == IF n1 = 1 THEN n2 ELSE n1

\* a - b on two batches of unit rows, followed by the in-place row
\* normalisation "d /= d.clone().norm(dim=-1, keepdim=True)".
NormalizedDifference(a, b) ==
    IF ~Broadcastable(a.n, b.n) THEN ShapeError
    ELSE Tensor(BroadcastSize(a.n, b.n),
                IF a.row.nan \/ b.row.nan THEN NaN
                ELSE Normalize(<<a.row.v[1] - b.row.v[1],
                                 a.row.v[2] - b.row.v[2]>>))

\* An image batch: n rows of height h and width w, whose content the image
\* encoder maps to e.
Image(n, e, h, w) == [n |-> n, e |-> e, h |-> h, w |-> w]

\* CLIPLoss.encode_images: one call of the image encoder.
encode_images(img) == img.e

\* CLIPLoss.get_image_features with norm=True.
get_image_features(img) == Tensor(img.n, Normalize(encode_images(img)))

----------------------------------------------------------------------------
(* DirectionLoss.                                                          *)

LossTypes == {"mse", "cosine", "mae"}

NoTerm == [kind |-> "none", x |-> NaN, y |-> NaN]

\* DirectionLoss.forward(x, y) followed by .mean(): the distance of the
\* rows x and y under the policy loss_type, or the shape error of the
\* comparison.  The distance is kept as the term (policy, x, y).
DirectionLossMean(loss_type, x, y) ==
    IF ~Broadcastable(x.n, y.n) THEN ShapeError
    ELSE [status |-> "ok",
          val |-> [kind |-> IF loss_type = "cosine" THEN "1-cosine" ELSE loss_type,
                   x |-> x.row, y |-> y.row]]

----------------------------------------------------------------------------
(* The directional losses.  Each returns the outcome of the method: what   *)
(* it returned or raised, and the image-encoder calls it made until then.  *)

Outcome(r, n_image, n_text) ==
    [status |-> r.status, val |-> r.val, image_calls |-> n_image, text_calls |-> n_text]

\* CLIPLoss.domain_clip_directional_loss: the cross-domain pairing.
domain_clip_directional_loss(src_img, old_img, target_img, new_img) ==
    LET src_encoding    == get_image_features(src_img)
        target_encoding == get_image_features(target_img)
        edit_direction  == NormalizedDifference(target_encoding, src_encoding)
        old_encoding    == get_image_features(old_img)
        new_encoding    == get_image_features(new_img)
        target_dir      == NormalizedDifference(new_encoding, old_encoding)
    IN  IF edit_direction.status = "error" THEN Outcome(edit_direction, 2, 0)
        ELSE IF target_dir.status = "error" THEN Outcome(target_dir, 4, 0)
        ELSE Outcome(DirectionLossMean(direction_loss_type, edit_direction, target_dir), 4, 0)

\* CLIPLoss.in_clip_directional_loss: the in-domain pairing.
in_clip_directional_loss(src_img, old_img, target_img, new_img) ==
    LET src_encoding    == get_image_features(src_img)
        target_encoding == get_image_features(target_img)
        old_encoding    == get_image_features(old_img)
        new_encoding    == get_image_features(new_img)
        edit_direction  == NormalizedDifference(target_encoding, new_encoding)
        target_dir      == NormalizedDifference(src_encoding, old_encoding)
    IN  IF edit_direction.status = "error" THEN Outcome(edit_direction, 4, 0)
        ELSE IF target_dir.status = "error" THEN Outcome(target_dir, 4, 0)
        ELSE Outcome(DirectionLossMean(direction_loss_type, edit_direction, target_dir), 4, 0)

\* CLIPLoss.rec_loss: the rows are normalised a second time, which leaves a
\* unit row as it is.
rec_loss(rec_img, new_img) ==
    LET rec_encoding == get_image_features(rec_img)
        new_encoding == get_image_features(new_img)
        renorm(t)    == Tensor(t.n, IF t.row.nan THEN NaN ELSE Normalize(t.row.v))
    IN  Outcome(DirectionLossMean(direction_loss_type, renorm(rec_encoding),
                                  renorm(new_encoding)), 2, 0)

\* clip_loss = 0.0 and nothing added to it.
ZeroLoss == [weight |-> 0, term |-> NoTerm]

\* clip_loss += weight * loss: the weighted loss, or the error of the loss.
Weighted(weight, o) ==
    IF o.status = "error" THEN o
    ELSE [o EXCEPT !.val = [weight |-> weight, term |-> o.val]]

\* forward without the test of the weight: the loss is computed and then
\* multiplied by the weight, zero included.
forward_multiplied_by_weight(src_img, old_img, target_img, new_img, flag) ==
    IF flag
    THEN Weighted(lambda_direction,
                  domain_clip_directional_loss(src_img, old_img, target_img, new_img))
    ELSE Weighted(lambda_direction,
                  in_clip_directional_loss(src_img, old_img, target_img, new_img))

\* forward with the two branches of the flag exchanged.
forward_branches_exchanged(src_img, old_img, target_img, new_img, flag) ==
    IF lambda_direction /= 0
    THEN IF ~flag
         THEN Weighted(lambda_direction,
                       domain_clip_directional_loss(src_img, old_img, target_img, new_img))
         ELSE Weighted(lambda_direction,
                       in_clip_directional_loss(src_img, old_img, target_img, new_img))
    ELSE [status |-> "ok", val |-> ZeroLoss, image_calls |-> 0, text_calls |-> 0]

\* CLIPLoss.forward.
forward(src_img, old_img, target_img, new_img, flag) ==
    IF lambda_direction /= 0
    THEN IF flag
         THEN Weighted(lambda_direction,
                       domain_clip_directional_loss(src_img, old_img, target_img, new_img))
         ELSE Weighted(lambda_direction,
                       in_clip_directional_loss(src_img, old_img, target_img, new_img))
    ELSE [status |-> "ok", val |-> ZeroLoss, image_calls |-> 0, text_calls |-> 0]

----------------------------------------------------------------------------
(* Arguments and results of a call.                                        *)

NoImage == Image(0, <<0, 0>>, 0, 0)

NoArgs ==
    [src_img |-> NoImage, old_img |-> NoImage, target_img |-> NoImage,
     new_img |-> NoImage, flag |-> FALSE, rec_img |-> NoImage,
     source_class |-> "", target_class |-> "",
     img |-> NoImage, text |-> "",
     img_shape |-> <<0, 0, 0, 0>>, num_patches |-> 0, size |-> 0,
     trainable_img |-> NoImage, domain_labels |-> <<>>]

NoResult == [status |-> "none", val |-> ZeroLoss]

Result(o) == [status |-> o.status, val |-> o.val]

\* A method that reads no cache field and crops nothing: it leaves the
\* engine as it is and hands its outcome to the caller.  (patch_centers and
\* patches are the centers and crops of the last call.)
Returns(name, a, o) ==
    /\ op' = name
    /\ args' = a
    /\ ret' = Result(o)
    /\ image_calls' = o.image_calls
    /\ text_calls' = o.text_calls
    /\ patch_centers' = <<>>
    /\ patches' = <<>>
    /\ UNCHANGED <<weights, config, caches>>

Forward(src_img, old_img, target_img, new_img, flag) ==
    Returns("forward",
            [NoArgs EXCEPT !.src_img = src_img, !.old_img = old_img,
                           !.target_img = target_img, !.new_img = new_img,
                           !.flag = flag],
            forward(src_img, old_img, target_img, new_img, flag))

DomainClipDirectionalLoss(src_img, old_img, target_img, new_img) ==
    Returns("domain_clip_directional_loss",
            [NoArgs EXCEPT !.src_img = src_img, !.old_img = old_img,
                           !.target_img = target_img, !.new_img = new_img],
            domain_clip_directional_loss(src_img, old_img, target_img, new_img))

InClipDirectionalLoss(src_img, old_img, target_img, new_img) ==
    Returns("in_clip_directional_loss",
            [NoArgs EXCEPT !.src_img = src_img, !.old_img = old_img,
                           !.target_img = target_img, !.new_img = new_img],
            in_clip_directional_loss(src_img, old_img, target_img, new_img))

RecLoss(rec_img, new_img) ==
    Returns("rec_loss",
            [NoArgs EXCEPT !.rec_img = rec_img, !.new_img = new_img],
            rec_loss(rec_img, new_img))

----------------------------------------------------------------------------
(* Text.  A text is a class string with the templates it was composed      *)
(* with; the tokenizer rejects a text that overflows CLIP's context, and   *)
(* the frozen text encoder maps a text to the embedding of its class.      *)

imagenet_templates == <<"a photo of a {}", "a painting of a {}">>
part_templates     == <<"the paw of a {}", "the nose of a {}">>

ShortLabels == {"photo", "sketch"}
Labels      == ShortLabels \cup {"a class string longer than the context"}

\* clip.tokenize raises RuntimeError for a text longer than the context.
Tokenizes(class_str) == class_str \in ShortLabels

TokenizeError == [status |-> "error", val |-> "context_length"]

\* CLIPLoss.compose_text_with_templates.
compose_text_with_templates(text, templates) ==
    [i \in 1..Len(templates) |-> <<templates[i], text>>]

\* CLIPLoss.encode_text on the tokens of the prompts of one class.
encode_text(class_str) == IF class_str = "photo" THEN <<3, 0>> ELSE <<0, 2>>

\* CLIPLoss.get_text_features with norm=True: one row per template.
get_text_features(class_str) ==
    IF ~Tokenizes(class_str) THEN TokenizeError
    ELSE Tensor(Len(compose_text_with_templates(class_str, imagenet_templates)),
                Normalize(encode_text(class_str)))

\* features.mean(axis=0, keepdim=True) divided by its norm.
MeanNormalized(features) ==
    Tensor(1, IF features.row.nan THEN NaN ELSE Normalize(features.row.v))

\* CLIPLoss.compute_text_direction: the outcome, with the encode_text calls.
compute_text_direction(source_class, target_class) ==
    LET source_features == get_text_features(source_class)
        target_features == get_text_features(target_class)
    IN  IF source_features.status = "error" THEN Outcome(source_features, 0, 0)
        ELSE IF target_features.status = "error" THEN Outcome(target_features, 0, 1)
        ELSE [status |-> "ok",
              val |-> NormalizedDifference(target_features, source_features).row,
              image_calls |-> 0, text_calls |-> 2]

\* The state set_text_features leaves, and its outcome.
TextState(src, target, o) == [src |-> src, target |-> target, outcome |-> o]

Done(n_image, n_text) ==
    [status |-> "ok", val |-> None, image_calls |-> n_image, text_calls |-> n_text]

\* CLIPLoss.set_text_features: src_text_features is assigned before the
\* target text is tokenized.
set_text_features(source_class, target_class) ==
    LET source_features == get_text_features(source_class)
        target_features == get_text_features(target_class)
    IN  IF source_features.status = "error"
        THEN TextState(src_text_features, target_text_features,
                       Outcome(source_features, 0, 0))
        ELSE IF target_features.status = "error"
        THEN TextState(MeanNormalized(source_features).row, target_text_features,
                       Outcome(target_features, 0, 1))
        ELSE TextState(MeanNormalized(source_features).row,
                       MeanNormalized(target_features).row, Done(0, 2))

NoneTypeError == [status |-> "error", val |-> "NoneType"]

\* The rest of clip_angle_loss, from the text features in src and target.
AngleLoss(src, target, src_img, target_img, n_text) ==
    IF target = None \/ src = None THEN Outcome(NoneTypeError, 0, n_text)
    ELSE LET src_img_features    == get_image_features(src_img)
             target_img_features == get_image_features(target_img)
         IN  IF ~Broadcastable(src_img_features.n, target_img_features.n)
             THEN Outcome(ShapeError, 2, n_text)
             ELSE [status |-> "ok",
                   val |-> [kind |-> "angle",
                            x |-> <<target_img_features.row, src_img_features.row>>,
                            y |-> <<target, src>>],
                   image_calls |-> 2, text_calls |-> n_text]

\* clip_angle_loss computing the text features of its own labels each time.
clip_angle_loss_uncached(src_img, source_class, target_img, target_class) ==
    LET s == set_text_features(source_class, target_class)
    IN  IF s.outcome.status = "error" THEN s
        ELSE TextState(s.src, s.target,
                       AngleLoss(s.src, s.target, src_img, target_img, 2))

\* CLIPLoss.clip_angle_loss: the state it leaves, and its outcome.
clip_angle_loss(src_img, source_class, target_img, target_class) ==
    IF src_text_features = None
    THEN LET s == set_text_features(source_class, target_class)
         IN  IF s.outcome.status = "error" THEN s
             ELSE TextState(s.src, s.target,
                            AngleLoss(s.src, s.target, src_img, target_img, 2))
    ELSE TextState(src_text_features, target_text_features,
                   AngleLoss(src_text_features, target_text_features,
                             src_img, target_img, 0))

----------------------------------------------------------------------------
(* Patches.                                                                *)

Shape(img) == <<img.n, 3, img.h, img.w>>

ValueError == [status |-> "error", val |-> "low >= high"]

\* random_patch_centers drawing from the whole image, without the margin.
random_patch_centers_no_margin(img_shape, num_patches, size) ==
    [1..(img_shape[1] * num_patches) ->
        (0..(img_shape[4] - 1)) \X (0..(img_shape[3] - 1))]

\* CLIPLoss.random_patch_centers: the arrays numpy can return, each a list
\* of batch_size * num_patches centers <<x, y>>; numpy.random.randint(low,
\* high) draws from low..high-1 and raises ValueError when low >= high, so
\* the set is empty exactly when the call raises.
random_patch_centers(img_shape, num_patches, size) ==
    LET batch_size == img_shape[1]
        height     == img_shape[3]
        width      == img_shape[4]
        half_size  == size \div 2
    IN  [1..(batch_size * num_patches) ->
            (half_size..(width - half_size - 1)) \X (half_size..(height - half_size - 1))]

\* The bound of a Python slice on an axis of length len.
SliceBound(i, len) ==
    IF i < 0 THEN (IF i + len < 0 THEN 0 ELSE i + len)
    ELSE IF i > len THEN len ELSE i

\* The index range lo:hi of an axis of length len, as <<first, end>>.
Slice(lo, hi, len) ==
    LET a == SliceBound(lo, len)
        b == SliceBound(hi, len)
    IN  <<a, IF b < a THEN a ELSE b>>

CatError == [status |-> "error", val |-> "cat"]

\* CLIPLoss.generate_patches: the crops in the order they are appended, or
\* the error of torch.cat (no crop at all, or crops of different sizes).
generate_patches(img, centers, size) ==
    LET batch_size  == img.n
        num_patches == Len(centers) \div batch_size
        half_size   == size \div 2
        patch(batch_idx, patch_idx) ==
            LET center_x == centers[batch_idx * num_patches + patch_idx + 1][1]
                center_y == centers[batch_idx * num_patches + patch_idx + 1][2]
            IN  [b    |-> batch_idx,
                 rows |-> Slice(center_y - half_size, center_y + half_size, img.h),
                 cols |-> Slice(center_x - half_size, center_x + half_size, img.w)]
        cropped == [k \in 1..(batch_size * num_patches) |->
                       patch((k - 1) \div num_patches, (k - 1) % num_patches)]
        Dims(q) == <<q.rows[2] - q.rows[1], q.cols[2] - q.cols[1]>>
    IN  IF batch_size * num_patches = 0 THEN CatError
        ELSE IF \E i, j \in DOMAIN cropped : Dims(cropped[i]) /= Dims(cropped[j])
        THEN CatError
        ELSE [status |-> "ok", val |-> cropped]

\* What a method that crops leaves: the cache field, the centers drawn,
\* the crops made, and the outcome.
PatchState(directions, centers, crops, o) ==
    [directions |-> directions, centers |-> centers, crops |-> crops, outcome |-> o]

\* The draws of a call: the arrays random_patch_centers can return, or the
\* single empty draw of a call that raises.
Draws(S) == IF S = {} THEN {<<>>} ELSE S

PatchSize196 == 196
PatchSize510 == 510
PatchesPerImage == 4

\* CLIPLoss.clip_patch_similarity, for the centers drawn (patch_scores
\* inlined: tokenize, encode_text, generate_patches, get_image_features).
clip_patch_similarity(src_img, source_class, target_img, target_class, centers) ==
    LET patch_size  == PatchSize196
        src_crops   == generate_patches(src_img, centers, patch_size)
        target_crops == generate_patches(target_img, centers, patch_size)
        St(c, crops, o) == PatchState(patch_text_directions, c, crops, o)
    IN  IF random_patch_centers(Shape(src_img), PatchesPerImage, patch_size) = {}
        THEN St(<<>>, <<>>, Outcome(ValueError, 0, 0))
        ELSE IF ~Tokenizes(source_class)
        THEN St(centers, <<>>, Outcome(TokenizeError, 0, 0))
        ELSE IF src_crops.status = "error"
        THEN St(centers, <<>>, Outcome(src_crops, 0, 1))
        ELSE IF ~Tokenizes(target_class)
        THEN St(centers, <<src_crops.val>>, Outcome(TokenizeError, 1, 1))
        ELSE IF target_crops.status = "error"
        THEN St(centers, <<src_crops.val>>, Outcome(target_crops, 1, 2))
        ELSE IF Len(src_crops.val) /= Len(target_crops.val)
        THEN St(centers, <<src_crops.val, target_crops.val>>, Outcome(ShapeError, 2, 2))
        ELSE St(centers, <<src_crops.val, target_crops.val>>,
                [status |-> "ok",
                 val |-> [kind |-> "patch_similarity",
                          x |-> <<src_img.e, source_class>>,
                          y |-> <<target_img.e, target_class>>],
                 image_calls |-> 2, text_calls |-> 2])

\* The bank of part-level text directions, or the error of building it.
PartDirections(source_class, target_class) ==
    LET src_part_classes    == compose_text_with_templates(source_class, part_templates)
        target_part_classes == compose_text_with_templates(target_class, part_templates)
        direction           == compute_text_direction(source_class, target_class)
    IN  IF direction.status = "error" THEN direction
        ELSE [status |-> "ok",
              val |-> [i \in 1..Len(src_part_classes) |-> direction.val],
              image_calls |-> 0,
              text_calls |-> 2 * Len(src_part_classes)]

\* The rest of patch_directional_loss, from the bank in directions.
PatchDirection(directions, src_img, target_img, centers, n_text) ==
    LET patch_size   == PatchSize510
        src_crops    == generate_patches(src_img, centers, patch_size)
        target_crops == generate_patches(target_img, centers, patch_size)
        St(c, crops, o) == PatchState(directions, c, crops, o)
    IN  IF random_patch_centers(Shape(src_img), 1, patch_size) = {}
        THEN St(<<>>, <<>>, Outcome(ValueError, 0, n_text))
        ELSE IF src_crops.status = "error"
        THEN St(centers, <<>>, Outcome(src_crops, 0, n_text))
        ELSE IF target_crops.status = "error"
        THEN St(centers, <<src_crops.val>>, Outcome(target_crops, 1, n_text))
        ELSE IF ~Broadcastable(Len(src_crops.val), Len(target_crops.val))
        THEN St(centers, <<src_crops.val, target_crops.val>>,
                Outcome(ShapeError, 2, n_text))
        ELSE St(centers, <<src_crops.val, target_crops.val>>,
                [status |-> "ok",
                 val |-> [kind |-> "patch_directional",
                          x |-> NormalizedDifference(
                                    Tensor(1, Normalize(encode_images(target_img))),
                                    Tensor(1, Normalize(encode_images(src_img)))).row,
                          y |-> directions],
                 image_calls |-> 2, text_calls |-> n_text])

\* CLIPLoss.patch_directional_loss, for the centers drawn.
patch_directional_loss(src_img, source_class, target_img, target_class, centers) ==
    IF patch_text_directions = None
    THEN LET bank == PartDirections(source_class, target_class)
         IN  IF bank.status = "error"
             THEN PatchState(patch_text_directions, <<>>, <<>>, bank)
             ELSE PatchDirection(bank.val, src_img, target_img, centers,
                                 bank.text_calls)
    ELSE PatchDirection(patch_text_directions, src_img, target_img, centers, 0)

\* A method that may fill cache fields, draw centers and crop.
Applies(name, a, src, target, directions, centers, crops, o) ==
    /\ op' = name
    /\ args' = a
    /\ ret' = Result(o)
    /\ image_calls' = o.image_calls
    /\ text_calls' = o.text_calls
    /\ src_text_features' = src
    /\ target_text_features' = target
    /\ patch_text_directions' = directions
    /\ patch_centers' = centers
    /\ patches' = crops
    /\ UNCHANGED <<weights, config, target_direction>>

SetTextFeatures(source_class, target_class) ==
    LET s == set_text_features(source_class, target_class)
    IN  Applies("set_text_features",
                [NoArgs EXCEPT !.source_class = source_class,
                               !.target_class = target_class],
                s.src, s.target, patch_text_directions, <<>>, <<>>, s.outcome)

ClipAngleLoss(src_img, source_class, target_img, target_class) ==
    LET s == clip_angle_loss(src_img, source_class, target_img, target_class)
    IN  Applies("clip_angle_loss",
                [NoArgs EXCEPT !.src_img = src_img, !.source_class = source_class,
                               !.target_img = target_img, !.target_class = target_class],
                s.src, s.target, patch_text_directions, <<>>, <<>>, s.outcome)

RandomPatchCenters(img, num_patches, size) ==
    LET S == random_patch_centers(Shape(img), num_patches, size)
    IN  \E centers \in Draws(S) :
            Applies("random_patch_centers",
                    [NoArgs EXCEPT !.img = img, !.img_shape = Shape(img),
                                   !.num_patches = num_patches, !.size = size],
                    src_text_features, target_text_features, patch_text_directions,
                    centers, <<>>,
                    IF S = {} THEN Outcome(ValueError, 0, 0)
                    ELSE [status |-> "ok", val |-> centers,
                          image_calls |-> 0, text_calls |-> 0])

GeneratePatches(img, centers, size) ==
    LET r == generate_patches(img, centers, size)
    IN  Applies("generate_patches",
                [NoArgs EXCEPT !.img = img, !.img_shape = Shape(img),
                               !.num_patches = Len(centers) \div img.n,
                               !.size = size],
                src_text_features, target_text_features, patch_text_directions,
                centers, IF r.status = "ok" THEN <<r.val>> ELSE <<>>,
                Outcome(r, 0, 0))

ClipPatchSimilarity(src_img, source_class, target_img, target_class) ==
    \E centers \in Draws(random_patch_centers(Shape(src_img), PatchesPerImage,
                                              PatchSize196)) :
        LET s == clip_patch_similarity(src_img, source_class, target_img,
                                       target_class, centers)
        IN  Applies("clip_patch_similarity",
                    [NoArgs EXCEPT !.src_img = src_img, !.source_class = source_class,
                                   !.target_img = target_img,
                                   !.target_class = target_class],
                    src_text_features, target_text_features, s.directions,
                    s.centers, s.crops, s.outcome)

PatchDirectionalLoss(src_img, source_class, target_img, target_class) ==
    \E centers \in Draws(random_patch_centers(Shape(src_img), 1, PatchSize510)) :
        LET s == patch_directional_loss(src_img, source_class, target_img,
                                        target_class, centers)
        IN  Applies("patch_directional_loss",
                    [NoArgs EXCEPT !.src_img = src_img, !.source_class = source_class,
                                   !.target_img = target_img,
                                   !.target_class = target_class],
                    src_text_features, target_text_features, s.directions,
                    s.centers, s.crops, s.outcome)

\* CLIPLoss.global_clip_loss: the joint model encodes the image and the text.
global_clip_loss(img, text) ==
    IF ~Tokenizes(text) THEN Outcome(TokenizeError, 0, 0)
    ELSE [status |-> "ok",
          val |-> [kind |-> "global", x |-> encode_images(img), y |-> encode_text(text)],
          image_calls |-> 1, text_calls |-> 1]

GlobalClipLoss(img, text) ==
    Returns("global_clip_loss", [NoArgs EXCEPT !.img = img, !.text = text],
            global_clip_loss(img, text))

AttributeError == [status |-> "error", val |-> "encode_images_with_cnn"]

\* CLIPLoss.cnn_feature_loss: the class defines no encode_images_with_cnn.
cnn_feature_loss(src_img, target_img) == Outcome(AttributeError, 0, 0)

CnnFeatureLoss(src_img, target_img) ==
    Returns("cnn_feature_loss",
            [NoArgs EXCEPT !.src_img = src_img, !.target_img = target_img],
            cnn_feature_loss(src_img, target_img))

----------------------------------------------------------------------------
(* The contrastive adaptation loss.  Row j of the target batch is the      *)
(* image of domain j; a pool entry records the target row it was made of   *)
(* and whether it went through DiffAugment.  Indices are those of the      *)
(* code, from 0.                                                           *)

Replicate == 5

\* torch.argmax of one row: the first index of the greatest entry.
ArgMax(row) ==
    CHOOSE i \in 0..(Len(row) - 1) :
        /\ \A j \in 0..(Len(row) - 1) : row[j + 1] <= row[i + 1]
        /\ \A j \in 0..(i - 1) : row[j + 1] < row[i + 1]

\* target_img.clone(): the rows of the target batch, in order.
Clone(n) == [j \in 1..n |-> [row |-> j - 1, augmented |-> FALSE]]

\* t.repeat(r, 1, 1, 1): r copies of the batch, one after the other.
Repeat(t, r) == [i \in 1..(r * Len(t)) |-> t[((i - 1) % Len(t)) + 1]]

\* DiffAugment(t, policy='xflip,color'): every row augmented, order kept.
DiffAugment(t) == [i \in 1..Len(t) |-> [t[i] EXCEPT !.augmented = TRUE]]

\* aug_images (batches of more than 50 targets are outside the bounds).
aug_images(n) ==
    IF neg_aug THEN Clone(n) \o DiffAugment(Repeat(Clone(n), Replicate - 1))
    ELSE Clone(n)

\* The indices of S in increasing order.
RECURSIVE Ascending(_)
Ascending(S) ==
    IF S = {} THEN <<>>
    ELSE LET m == CHOOSE x \in S : \A y \in S : x <= y
         IN  <<m>> \o Ascending(S \ {m})

\* neg_indices that leave out the positive alone.
neg_indices_positive_only(cur_label, n_target, n_pool) ==
    Ascending({i \in 0..(n_pool - 1) : i /= cur_label})

\* neg_indices of one sample.
neg_indices(cur_label, n_target, n_pool) ==
    Ascending({i \in 0..(n_pool - 1) :
                 i \notin {cur_label + n * n_target : n \in 0..(Replicate - 1)}})

IndexError == [status |-> "error", val |-> "index"]

\* CLIPLoss.contrastive_adaptation_loss: for every sample, its label, the
\* index lists, the rows the logits are taken against, in order, and the
\* class the cross-entropy is taken against.
contrastive_adaptation_loss(trainable_img, target_img, domain_labels) ==
    LET label_indices == [k \in 1..Len(domain_labels) |-> ArgMax(domain_labels[k])]
        pool          == aug_images(target_img.n)
        n_samples     == IF trainable_img.n < Len(label_indices)
                         THEN trainable_img.n ELSE Len(label_indices)
        sample(k) ==
            LET cur_label == label_indices[k]
                pos       == <<cur_label>>
                neg       == neg_indices(cur_label, target_img.n, Len(pool))
            IN  [cur_label |-> cur_label, pos_indices |-> pos, neg_indices |-> neg,
                 total_encodings |-> [i \in 1..(1 + Len(neg)) |->
                                         IF i = 1 THEN pool[pos[1] + 1]
                                         ELSE pool[neg[i - 1] + 1]],
                 labels |-> <<0>>]
    IN  IF \E k \in 1..n_samples : label_indices[k] >= Len(pool)
        THEN Outcome(IndexError, 2, 0)
        ELSE [status |-> "ok", val |-> [k \in 1..n_samples |-> sample(k)],
              image_calls |-> 2, text_calls |-> 0]

ContrastiveAdaptationLoss(trainable_img, target_img, domain_labels) ==
    Returns("contrastive_adaptation_loss",
            [NoArgs EXCEPT !.trainable_img = trainable_img,
                           !.target_img = target_img,
                           !.domain_labels = domain_labels],
            contrastive_adaptation_loss(trainable_img, target_img, domain_labels))

----------------------------------------------------------------------------
(* The directional losses as functions of their arguments: the engine is   *)
(* constructed with any direction weight and any distance policy, the      *)
(* arguments are drawn, and one of the methods is applied to them.         *)

\* Batches of one size with any contents, and batches of any sizes.
SameSizeBatches ==
    {[src_img |-> Image(n, s, 4, 4), old_img |-> Image(n, o, 4, 4),
      target_img |-> Image(n, t, 4, 4), new_img |-> Image(n, w, 4, 4)] :
        n \in 1..MaxBatch, s \in AxisEmbeddings, o \in AxisEmbeddings,
        t \in AxisEmbeddings, w \in AxisEmbeddings}

AnySizeBatches ==
    {[src_img |-> Image(ns, s, 4, 4), old_img |-> Image(no, <<0, 1>>, 4, 4),
      target_img |-> Image(nt, <<0, -1>>, 4, 4), new_img |-> Image(nw, w, 4, 4)] :
        ns \in 1..MaxBatch, no \in 1..MaxBatch, nt \in 1..MaxBatch,
        nw \in 1..MaxBatch, s \in {<<2, 0>>, <<0, 1>>}, w \in {<<2, 0>>, <<-1, 0>>}}

Constructed ==
    /\ neg_aug = TRUE
    /\ target_direction = None
    /\ patch_text_directions = None
    /\ src_text_features = None
    /\ target_text_features = None
    /\ op = "none"
    /\ ret = NoResult
    /\ image_calls = 0
    /\ text_calls = 0
    /\ patch_centers = <<>>
    /\ patches = <<>>

InitDirection ==
    /\ Constructed
    /\ lambda_direction \in 0..MaxLambda
    /\ lambda_patch = 0 /\ lambda_global = 0 /\ lambda_manifold = 0
    /\ lambda_texture = 0 /\ lambda_contrast = 0
    /\ direction_loss_type \in LossTypes
    /\ \E b \in SameSizeBatches \cup AnySizeBatches, f \in BOOLEAN :
          args = [NoArgs EXCEPT !.src_img = b.src_img, !.old_img = b.old_img,
                                !.target_img = b.target_img,
                                !.new_img = b.new_img, !.flag = f]

NextDirection ==
    /\ op = "none"
    /\ \/ Forward(args.src_img, args.old_img, args.target_img, args.new_img, args.flag)
       \/ DomainClipDirectionalLoss(args.src_img, args.old_img, args.target_img, args.new_img)
       \/ InClipDirectionalLoss(args.src_img, args.old_img, args.target_img, args.new_img)
       \/ RecLoss(args.src_img, args.new_img)

SpecDirection == InitDirection /\ [][NextDirection]_vars

----------------------------------------------------------------------------
(* The engine: constructed with any weights, then any sequence of calls.   *)

MaxDomains == 3     \* one-hot rows have 1..MaxDomains columns
MaxTargets == 3     \* target batches of the contrastive loss: 1..MaxTargets rows
MaxDim     == 4     \* heights and widths of the images cropped: 1..MaxDim
MaxSize    == 4     \* patch sizes: 2..MaxSize

OneHot(k) == {[i \in 1..k |-> IF i = hot THEN 1 ELSE 0] : hot \in 1..k}

EngineImages  == {Image(1, <<2, 0>>, 511, 511), Image(1, <<0, 1>>, 256, 256)}
PatchSimImage == Image(1, <<2, 0>>, 197, 197)

Init ==
    /\ Constructed
    /\ lambda_direction \in 0..MaxLambda
    /\ \E w \in {0, 1} :
          /\ lambda_patch = w /\ lambda_global = w /\ lambda_manifold = w
          /\ lambda_texture = w /\ lambda_contrast = w
    /\ direction_loss_type = "cosine"
    /\ args = NoArgs

Next ==
    \/ \E s \in EngineImages, f \in BOOLEAN :
          Forward(s, PatchSimImage, PatchSimImage, s, f)
    \/ \E sc \in Labels, tc \in Labels : SetTextFeatures(sc, tc)
    \/ \E sc \in Labels, tc \in Labels :
          ClipAngleLoss(PatchSimImage, sc, PatchSimImage, tc)
    \/ \E s \in EngineImages, sc \in Labels, tc \in Labels :
          PatchDirectionalLoss(s, sc, s, tc)
    \/ \E sc \in Labels :
          ClipPatchSimilarity(PatchSimImage, sc, PatchSimImage, "sketch")
    \/ \E d \in OneHot(2) :
          ContrastiveAdaptationLoss(Image(1, <<2, 0>>, 4, 4), Image(2, <<0, 1>>, 4, 4), <<d>>)
    \/ \E t \in Labels : GlobalClipLoss(PatchSimImage, t)
    \/ \E s \in EngineImages : CnnFeatureLoss(s, s)

Spec == Init /\ [][Next]_vars

----------------------------------------------------------------------------
(* The contrastive loss as a function of its arguments.                    *)

InitContrast ==
    /\ Constructed
    /\ lambda_direction = 1
    /\ lambda_patch = 0 /\ lambda_global = 0 /\ lambda_manifold = 0
    /\ lambda_texture = 0 /\ lambda_contrast = 1
    /\ direction_loss_type = "cosine"
    /\ \E n \in 1..MaxTargets, m \in 1..MaxBatch, k \in 1..MaxDomains :
          \E d \in [1..m -> OneHot(k)] :
              args = [NoArgs EXCEPT !.trainable_img = Image(m, <<2, 0>>, 4, 4),
                                    !.target_img = Image(n, <<0, 1>>, 4, 4),
                                    !.domain_labels = d]

NextContrast ==
    /\ op = "none"
    /\ ContrastiveAdaptationLoss(args.trainable_img, args.target_img, args.domain_labels)

SpecContrast == InitContrast /\ [][NextContrast]_vars

----------------------------------------------------------------------------
(* The patch functions, and the two losses that crop, as functions of      *)
(* their arguments.                                                        *)

PatchImages == {Image(n, <<2, 0>>, h, w) : n \in {1, 2}, h \in 1..MaxDim, w \in 1..MaxDim}

SimImages == {Image(1, <<2, 0>>, h, w) : h \in {150, 196, 197}, w \in {150, 196, 197, 198}}
DirImages == {Image(1, <<2, 0>>, h, w) : h \in {256, 510, 511}, w \in {256, 510, 511, 512}}

InitPatch ==
    /\ Constructed
    /\ lambda_direction = 1
    /\ lambda_patch = 1 /\ lambda_global = 0 /\ lambda_manifold = 0
    /\ lambda_texture = 0 /\ lambda_contrast = 0
    /\ direction_loss_type = "cosine"
    /\ \/ \E i \in PatchImages, p \in {1, 2}, z \in 2..MaxSize :
             args = [NoArgs EXCEPT !.img = i, !.img_shape = Shape(i),
                                   !.num_patches = p, !.size = z]
       \/ \E s \in SimImages \cup DirImages, t \in SimImages \cup DirImages :
             args = [NoArgs EXCEPT !.src_img = s, !.target_img = t,
                                   !.source_class = "photo",
                                   !.target_class = "sketch"]

NextPatch ==
    \/ /\ op = "none"
       /\ args.img /= NoImage
       /\ RandomPatchCenters(args.img, args.num_patches, args.size)
    \/ /\ op = "random_patch_centers"
       /\ ret.status = "ok"
       /\ GeneratePatches(args.img, patch_centers, args.size)
    \/ /\ op = "none"
       /\ args.src_img \in SimImages
       /\ ClipPatchSimilarity(args.src_img, args.source_class, args.target_img,
                              args.target_class)
    \/ /\ op = "none"
       /\ args.src_img \in DirImages
       /\ PatchDirectionalLoss(args.src_img, args.source_class, args.target_img,
                               args.target_class)

SpecPatch == InitPatch /\ [][NextPatch]_vars

----------------------------------------------------------------------------
(* Properties.                                                             *)

\* The unit direction from the embedding of image a to that of image b.
Direction(a, b) ==
    Normalize(<<Normalize(b.e).v[1] - Normalize(a.e).v[1],
                Normalize(b.e).v[2] - Normalize(a.e).v[2]>>)

Populated(field) == field /= None

\* C1: with a zero direction weight, forward (either flag) returns zero,
\* calls neither encoder and leaves the four cache fields as they were.
C1_ZeroWeightSkipsForward ==
    [][(op' = "forward" /\ lambda_direction = 0) =>
          /\ ret'.status = "ok"
          /\ ret'.val = ZeroLoss
          /\ image_calls' = 0
          /\ text_calls' = 0
          /\ UNCHANGED caches]_vars

\* forward was called with a zero weight on an engine whose caches are filled.
C1_Witness ==
    /\ op = "forward"
    /\ lambda_direction = 0
    /\ args.flag
    /\ Populated(src_text_features)
    /\ Populated(target_text_features)
    /\ Populated(patch_text_directions)

\* C2: with a non-zero direction weight, forward returns the weight times
\* one directional loss, evaluated alone (four image encodings): with the
\* flag, the distance of the direction src -> target from the direction
\* old -> new; without it, the distance of the direction new -> target from
\* the direction old -> src.
C2_ForwardDispatch ==
    (op = "forward" /\ lambda_direction /= 0) =>
        /\ image_calls <= 4
        /\ ret.status = "ok" =>
              /\ image_calls = 4
              /\ ret.val.weight = lambda_direction
              /\ ret.val.term.kind = (IF direction_loss_type = "cosine"
                                      THEN "1-cosine" ELSE direction_loss_type)
              /\ args.flag =>
                    /\ ret.val.term.x = Direction(args.src_img, args.target_img)
                    /\ ret.val.term.y = Direction(args.old_img, args.new_img)
              /\ ~args.flag =>
                    /\ ret.val.term.x = Direction(args.new_img, args.target_img)
                    /\ ret.val.term.y = Direction(args.old_img, args.src_img)

\* forward took the cross-domain branch with a weight other than 1, on
\* images for which no direction is degenerate and the in-domain pairing
\* compares other directions.
C2_Witness ==
    /\ op = "forward"
    /\ lambda_direction = 2
    /\ args.flag
    /\ ret.status = "ok"
    /\ ~ret.val.term.x.nan
    /\ ~ret.val.term.y.nan
    /\ ~Direction(args.new_img, args.target_img).nan
    /\ ~Direction(args.old_img, args.src_img).nan
    /\ ret.val.term.x /= Direction(args.new_img, args.target_img)
    /\ ret.val.term.y /= Direction(args.old_img, args.src_img)

LossComputations ==
    {"forward", "clip_angle_loss", "patch_directional_loss",
     "clip_patch_similarity", "contrastive_adaptation_loss"}

\* The text features set_text_features stores for a class.
TextFeature(class_str) == Normalize(encode_text(class_str))

\* C3: a loss computation never changes a populated src_text_features,
\* target_text_features or patch_text_directions; a field it populates is
\* computed from the labels of that call; and a clip_angle_loss or
\* patch_directional_loss call on populated fields uses the stored values,
\* whatever labels it is passed.
C3_CachesWriteOnce ==
    [][op' \in LossComputations =>
          /\ Populated(src_text_features) => src_text_features' = src_text_features
          /\ Populated(target_text_features) =>
                target_text_features' = target_text_features
          /\ Populated(patch_text_directions) =>
                patch_text_directions' = patch_text_directions
          /\ (~Populated(src_text_features) /\ Populated(src_text_features')) =>
                /\ op' = "clip_angle_loss"
                /\ src_text_features' = TextFeature(args'.source_class)
          /\ (~Populated(target_text_features) /\ Populated(target_text_features')) =>
                /\ op' = "clip_angle_loss"
                /\ target_text_features' = TextFeature(args'.target_class)
          /\ (~Populated(patch_text_directions) /\ Populated(patch_text_directions')) =>
                op' = "patch_directional_loss"
          /\ (op' = "clip_angle_loss" /\ Populated(src_text_features)
                 /\ ret'.status = "ok") =>
                ret'.val.y = <<target_text_features, src_text_features>>
          /\ (op' = "patch_directional_loss" /\ Populated(patch_text_directions)
                 /\ ret'.status = "ok") =>
                ret'.val.y = patch_text_directions]_vars

\* clip_angle_loss returned a loss computed from text features that are not
\* those of the labels it was passed.
C3_Witness ==
    /\ op = "clip_angle_loss"
    /\ ret.status = "ok"
    /\ args.source_class \in ShortLabels
    /\ args.target_class \in ShortLabels
    /\ ret.val.y /= <<TextFeature(args.target_class), TextFeature(args.source_class)>>

\* C4: in no reachable state does clip_angle_loss read a text feature that
\* is not populated: it never fails on a missing one.
C4_NoMissingTextFeatures ==
    ~(op = "clip_angle_loss" /\ ret.status = "error" /\ ret.val = "NoneType")

\* C9: a directional loss given a pair of image batches of different batch
\* sizes (the two batches a direction is taken between) fails with a shape
\* mismatch and returns no loss.
C9_BatchMismatchFails ==
    /\ (/\ op = "domain_clip_directional_loss"
        /\ (args.src_img.n /= args.target_img.n \/ args.old_img.n /= args.new_img.n))
          => (ret.status = "error" /\ ret.val = "shape_mismatch")
    /\ (/\ op = "in_clip_directional_loss"
        /\ (args.new_img.n /= args.target_img.n \/ args.old_img.n /= args.src_img.n))
          => (ret.status = "error" /\ ret.val = "shape_mismatch")
    /\ (op = "rec_loss" /\ args.rec_img.n /= args.new_img.n)
          => (ret.status = "error" /\ ret.val = "shape_mismatch")

\* C10: a loss method whose term has weight zero calls no encoder.
C10_ZeroWeightSkipsTerm ==
    LET NoCall == image_calls = 0 /\ text_calls = 0
    IN  /\ (lambda_patch = 0 /\ op \in {"clip_patch_similarity",
                                          "patch_directional_loss"}) => NoCall
        /\ (lambda_global = 0 /\ op = "global_clip_loss") => NoCall
        /\ (lambda_manifold = 0 /\ op = "clip_angle_loss") => NoCall
        /\ (lambda_texture = 0 /\ op = "cnn_feature_loss") => NoCall
        /\ (lambda_contrast = 0 /\ op = "contrastive_adaptation_loss") => NoCall

\* The centers returned: batch_size * num_patches of them.
CentersCounted ==
    Len(patch_centers) = args.img_shape[1] * args.num_patches

\* C5, as amended: when random_patch_centers returns, it returns
\* batch_size * num_patches centers <<x, y>> with
\* floor(size/2) <= x <= W - size/2 and floor(size/2) <= y <= H - size/2.
C5_CentersKeepMargin ==
    (op = "random_patch_centers" /\ ret.status = "ok") =>
        /\ CentersCounted
        /\ \A k \in DOMAIN patch_centers :
              /\ args.size \div 2 <= patch_centers[k][1]
              /\ 2 * patch_centers[k][1] <= 2 * args.img_shape[4] - args.size
              /\ args.size \div 2 <= patch_centers[k][2]
              /\ 2 * patch_centers[k][2] <= 2 * args.img_shape[3] - args.size

\* C5, as claimed: every center keeps size/2 from every edge,
\* size/2 <= x <= W - size/2 and size/2 <= y <= H - size/2.
C5_CentersKeepHalfSize ==
    (op = "random_patch_centers" /\ ret.status = "ok") =>
        /\ CentersCounted
        /\ \A k \in DOMAIN patch_centers :
              /\ args.size <= 2 * patch_centers[k][1]
              /\ 2 * patch_centers[k][1] <= 2 * args.img_shape[4] - args.size
              /\ args.size <= 2 * patch_centers[k][2]
              /\ 2 * patch_centers[k][2] <= 2 * args.img_shape[3] - args.size

\* Centers were drawn for two images and two patches each with an odd
\* patch size above 1, one of them at floor(size/2).
C5_Witness ==
    /\ op = "random_patch_centers"
    /\ ret.status = "ok"
    /\ args.size % 2 = 1
    /\ args.size > 1
    /\ Len(patch_centers) = 4
    /\ \E k \in DOMAIN patch_centers : patch_centers[k][1] = args.size \div 2

\* The patch size a method crops with.
PatchSizeOf(name) ==
    IF name = "clip_patch_similarity" THEN PatchSize196
    ELSE IF name = "patch_directional_loss" THEN PatchSize510
    ELSE args.size

Min(a, b) == IF a < b THEN a ELSE b

\* Crop q of image img covers size rows and columns, all of them in img.
FullCrop(q, img, size) ==
    /\ q.rows[2] - q.rows[1] = size
    /\ q.cols[2] - q.cols[1] = size
    /\ 0 <= q.rows[1] /\ q.rows[2] <= img.h
    /\ 0 <= q.cols[1] /\ q.cols[2] <= img.w

\* C6: a patch size >= min(H, W) of an image to be cropped ends the
\* operation in an error with no center drawn, and every crop returned has
\* the rows and columns requested, inside its image.
C6_InvalidGeometryFailsFast ==
    /\ (op = "random_patch_centers"
           /\ args.size >= Min(args.img_shape[3], args.img_shape[4]))
          => (ret.status = "error" /\ patch_centers = <<>>)
    /\ (op \in {"clip_patch_similarity", "patch_directional_loss"}
           /\ PatchSizeOf(op) >= Min(Min(args.src_img.h, args.src_img.w),
                                     Min(args.target_img.h, args.target_img.w)))
          => (ret.status = "error" /\ patch_centers = <<>>)
    /\ op = "generate_patches" =>
          \A i \in DOMAIN patches : \A k \in DOMAIN patches[i] :
              FullCrop(patches[i][k], args.img, args.size)
    /\ op \in {"clip_patch_similarity", "patch_directional_loss"} =>
          \A i \in DOMAIN patches : \A k \in DOMAIN patches[i] :
              FullCrop(patches[i][k],
                       IF i = 1 THEN args.src_img ELSE args.target_img,
                       PatchSizeOf(op))

\* C7: for centers drawn for the batch, generate_patches returns
\* batch_size * num_patches patches of size x size, the patch at position
\* b * num_patches + p being the crop of image b around center
\* b * num_patches + p.
C7_PatchesExact ==
    (op = "generate_patches" /\ ret.status = "ok") =>
        /\ Len(patches[1]) = args.img.n * args.num_patches
        /\ Len(patches[1]) = Len(patch_centers)
        /\ \A k \in DOMAIN patches[1] :
              /\ patches[1][k].b = (k - 1) \div args.num_patches
              /\ patches[1][k].rows[2] - patches[1][k].rows[1] = args.size
              /\ patches[1][k].cols[2] - patches[1][k].cols[1] = args.size
              /\ patches[1][k].rows[1] <= patch_centers[k][2]
              /\ patch_centers[k][2] <= patches[1][k].rows[2]
              /\ patches[1][k].cols[1] <= patch_centers[k][1]
              /\ patch_centers[k][1] <= patches[1][k].cols[2]

\* The column of the 1 in a one-hot row, from 0.
HotColumn(row) == CHOOSE i \in 0..(Len(row) - 1) : row[i + 1] = 1

====
